---- MODULE Spec2Model ----
(***************************************************************************)
(* A model of pymatgen.io.core: InputFile, InputSet and InputGenerator.    *)
(*                                                                         *)
(* Python objects live in a heap (a sequence of cells, an object's         *)
(* identity is its index).  A dict is a cell holding its items in          *)
(* insertion order, an InputSet is a cell whose items are the entries of   *)
(* its instance __dict__ ("inputs", "_kwargs", then the attributes), an    *)
(* InputFile is a cell holding the text its get_str renders.  The file     *)
(* system is one directory with a flat set of file names.                  *)
(*                                                                         *)
(* Three specifications share the variables:                               *)
(*   Spec       the mapping, attribute, copy and merge operations          *)
(*   SpecWrite  InputSet.write_input, statement by statement, beside an    *)
(*              external actor that deletes files the call has written     *)
(*   SpecCalls  the abstract operations called on types that do or do not  *)
(*              override them                                              *)
(***************************************************************************)
EXTENDS Integers, Sequences, FiniteSets, TLC

VARIABLES
    heap,        \* the objects: Seq(cell)
    env,         \* the program's names c, d, s, b: address, 0 when unbound
    res,         \* the value c | b (or another a | b) returned
    orArgs,      \* the operands of that call, and the shape of a right operand made for it
    nops,        \* the number of operations done (bounded by MaxOps)
    last,        \* the outcome of the last call: returned value or exception
    disk,        \* the directory and its files
    pc,          \* write_input's position
    idx,         \* write_input's loop index
    args,        \* write_input's arguments
    pre,         \* the disk when write_input was called
    extDeleted   \* the names the external actor has deleted during the call

vars == <<heap, env, res, orArgs, nops, last, disk, pc, idx, args, pre, extDeleted>>

-----------------------------------------------------------------------------
(* Bounds *)

\* Operations (item, attribute, file mutations and calls) per behaviour.
MaxOps == 2
\* File names a collection may use; a collection holds at most this many entries.
NumNames == 2

AllNames == <<"a", "b", "c", "d">>
Names == {AllNames[i] : i \in 1..NumNames}
Keys == {"a", "b"}              \* the item keys the mapping operations use
AttrNames == {"foo", "bar"}
SetClasses == {"InputSet", "SubSet"}
FileClasses == {"InputFile", "BareFile", "ImplFile"}
GeneratorClasses == {"InputGenerator", "BareGenerator"}
Dir == "dir"

-----------------------------------------------------------------------------
(* Values and heap cells *)

StrV(x) == [k |-> "str", s |-> x, a |-> 0]     \* a str
IntV(x) == [k |-> "int", s |-> x, a |-> 0]     \* a non-str value whose str() is x
RefV(x) == [k |-> "ref", s |-> "", a |-> x]    \* a reference to heap[x]
NoneV == [k |-> "none", s |-> "", a |-> 0]
NotImplementedV == [k |-> "notimpl", s |-> "", a |-> 0]

DictCell(its) == [t |-> "dict", cls |-> "dict", items |-> its, text |-> ""]
SetCell(cl, its) == [t |-> "set", cls |-> cl, items |-> its, text |-> ""]
FileCell(cl, tx) == [t |-> "file", cls |-> cl, items |-> <<>>, text |-> tx]

\* the outcome of a call: the value returned, or the exception raised and what
\* its message names; `on` is the class the call was made on, when recorded
Returned(o, v) == [op |-> o, exc |-> "", arg |-> "", val |-> v, on |-> ""]
Raised(o, e, x) == [op |-> o, exc |-> e, arg |-> x, val |-> NoneV, on |-> ""]
NoCall == Returned("", NoneV)

\* dict, in insertion order: items are <<key, value>> pairs
DictKeys(its) == [i \in 1..Len(its) |-> its[i][1]]
DictKeySet(its) == {its[i][1] : i \in 1..Len(its)}
DictHas(its, key) == key \in DictKeySet(its)
DictGet(its, key) == its[CHOOSE i \in 1..Len(its) : its[i][1] = key][2]
DictSet(its, key, val) ==
    IF DictHas(its, key)
    THEN [i \in 1..Len(its) |-> IF its[i][1] = key THEN <<key, val>> ELSE its[i]]
    ELSE Append(its, <<key, val>>)
DictDel(its, key) == SelectSeq(its, LAMBDA e : e[1] # key)

RECURSIVE DictUpdate(_, _)
DictUpdate(its, more) ==
    IF more = <<>> THEN its
    ELSE DictUpdate(DictSet(its, more[1][1], more[1][2]), Tail(more))

Range(f) == {f[i] : i \in DOMAIN f}

Alloc(h, cell) == [h |-> Append(h, cell), a |-> Len(h) + 1]

IsSubclass(cl, base) == cl = base \/ (cl = "SubSet" /\ base = "InputSet")
                                  \/ (cl \in {"BareFile", "ImplFile"} /\ base = "InputFile")
                                  \/ (cl = "BareGenerator" /\ base = "InputGenerator")
IsInstance(h, v, base) == v.k = "ref" /\ IsSubclass(h[v.a].cls, base)
IsDict(h, v) == v.k = "ref" /\ h[v.a].t = "dict"

\* the truth value `inputs or {}` tests
Truthy(h, v) ==
    CASE v.k = "none" -> FALSE
      [] v.k = "str" -> v.s # ""
      [] v.k = "ref" /\ h[v.a].t = "dict" -> h[v.a].items # <<>>
      [] OTHER -> TRUE

-----------------------------------------------------------------------------
(* InputSet: construction, attributes, mapping protocol *)

\* InputSet.__init__(self, inputs=None, **kwargs) on a fresh instance of cl
InputSet_init(h, cl, inputs, kwargs) ==
    LET kw == Alloc(h, DictCell(kwargs))
        inp == IF Truthy(kw.h, inputs) THEN [h |-> kw.h, a |-> inputs.a]
               ELSE Alloc(kw.h, DictCell(<<>>))
        dct == DictUpdate(<<<<"inputs", RefV(inp.a)>>, <<"_kwargs", RefV(kw.a)>>>>, kwargs)
    IN Alloc(inp.h, SetCell(cl, dct))

InputSet_inputs(h, self) == h[DictGet(h[self].items, "inputs").a].items
InputSet_kwargs(h, self) == h[DictGet(h[self].items, "_kwargs").a].items

InputSet_len(h, self) == Len(InputSet_inputs(h, self))
InputSet_iter(h, self) == DictKeys(InputSet_inputs(h, self))
InputSet_getitem(h, self, key) ==
    IF DictHas(InputSet_inputs(h, self), key)
    THEN Returned("getitem", DictGet(InputSet_inputs(h, self), key))
    ELSE Raised("getitem", "KeyError", key)

\* Mapping.get, which InputSet inherits: self[key], None on KeyError
Mapping_get(h, self, key) ==
    LET r == InputSet_getitem(h, self, key)
    IN IF r.exc = "KeyError" THEN NoneV ELSE r.val

\* InputSet.__getattr__, called when the instance __dict__ lacks the name
InputSet_getattr(h, self, key) ==
    IF DictHas(InputSet_kwargs(h, self), key)
    THEN Returned("getattr", Mapping_get(h, self, key))
    ELSE Raised("getattr", "AttributeError", key)

\* the attribute lookup self.<name>
GetAttr(h, self, name) ==
    IF DictHas(h[self].items, name)
    THEN Returned("getattr", DictGet(h[self].items, name))
    ELSE InputSet_getattr(h, self, name)

SetAttrObj(h, self, name, val) ==
    [h EXCEPT ![self].items = DictSet(@, name, val)]
DelAttrObj(h, self, name) ==
    [h EXCEPT ![self].items = DictDel(@, name)]

InputSet_setitem_reinsert(h, self, key, val) ==
    [h EXCEPT ![DictGet(h[self].items, "inputs").a].items = Append(DictDel(@, key), <<key, val>>)]
InputSet_setitem(h, self, key, val) ==
    [h EXCEPT ![DictGet(h[self].items, "inputs").a].items = DictSet(@, key, val)]
InputSet_delitem(h, self, key) ==
    [h EXCEPT ![DictGet(h[self].items, "inputs").a].items = DictDel(@, key)]

-----------------------------------------------------------------------------
(* InputSet: copy, deepcopy, merge *)

\* InputSet.__copy__: a new instance given every entry of self.__dict__
InputSet_copy(h, self) ==
    Alloc(h, SetCell(h[self].cls, DictUpdate(<<>>, h[self].items)))

\* copy.deepcopy(v, memo) and InputSet.__deepcopy__(self, memo); memo maps the
\* address of an object already copied to the address of its copy.  The
\* result is [h, memo, v] (items instead of v for the item loop).
RECURSIVE DeepCopy(_, _, _)
RECURSIVE DeepCopyItems(_, _, _, _)
RECURSIVE InputSet_deepcopy(_, _, _)

InputSet_deepcopy_shared(h, memo, self) ==
    LET new == Alloc(h, SetCell(h[self].cls, h[self].items))
    IN [h |-> new.h, memo |-> DictSet(memo, self, new.a), v |-> RefV(new.a)]

DeepCopyItems(h, memo, its, acc) ==
    IF its = <<>> THEN [h |-> h, memo |-> memo, items |-> acc]
    ELSE LET r == DeepCopy(h, memo, its[1][2])
         IN DeepCopyItems(r.h, r.memo, Tail(its), DictSet(acc, its[1][1], r.v))

InputSet_deepcopy(h, memo, self) ==
    LET new == Alloc(h, SetCell(h[self].cls, <<>>))
        r == DeepCopyItems(new.h, DictSet(memo, self, new.a), h[self].items, <<>>)
    IN [h |-> [r.h EXCEPT ![new.a].items = r.items], memo |-> r.memo, v |-> RefV(new.a)]

DeepCopy(h, memo, v) ==
    IF v.k # "ref" THEN [h |-> h, memo |-> memo, v |-> v]
    ELSE IF DictHas(memo, v.a) THEN [h |-> h, memo |-> memo, v |-> RefV(DictGet(memo, v.a))]
    ELSE CASE h[v.a].t = "set" -> InputSet_deepcopy(h, memo, v.a)
           [] h[v.a].t = "dict" ->
                LET new == Alloc(h, DictCell(<<>>))
                    r == DeepCopyItems(new.h, DictSet(memo, v.a, new.a), h[v.a].items, <<>>)
                IN [h |-> [r.h EXCEPT ![new.a].items = r.items], memo |-> r.memo,
                    v |-> RefV(new.a)]
           [] OTHER ->
                LET new == Alloc(h, h[v.a])
                IN [h |-> new.h, memo |-> DictSet(memo, v.a, new.a), v |-> RefV(new.a)]

InputSet_or_leftwins(h, self, other) ==
    LET cl == h[self].cls
        co == IF IsDict(h, other)
              THEN LET n == InputSet_init(h, cl, other, <<>>) IN [h |-> n.h, v |-> RefV(n.a)]
              ELSE [h |-> h, v |-> other]
    IN IF ~IsInstance(co.h, co.v, cl) THEN [h |-> co.h, v |-> NotImplementedV]
       ELSE LET merged == Alloc(co.h, DictCell(DictUpdate(
                                DictUpdate(<<>>, InputSet_inputs(co.h, co.v.a)),
                                InputSet_inputs(co.h, self))))
                n == InputSet_init(merged.h, cl, RefV(merged.a), InputSet_kwargs(merged.h, self))
            IN [h |-> n.h, v |-> RefV(n.a)]

\* InputSet.__or__(self, other): [h, v], v the new collection or NotImplemented
InputSet_or(h, self, other) ==
    LET cl == h[self].cls
        co == IF IsDict(h, other)
              THEN LET n == InputSet_init(h, cl, other, <<>>) IN [h |-> n.h, v |-> RefV(n.a)]
              ELSE [h |-> h, v |-> other]
    IN IF ~IsInstance(co.h, co.v, cl) THEN [h |-> co.h, v |-> NotImplementedV]
       ELSE LET merged == Alloc(co.h, DictCell(DictUpdate(
                                DictUpdate(<<>>, InputSet_inputs(co.h, self)),
                                InputSet_inputs(co.h, co.v.a))))
                n == InputSet_init(merged.h, cl, RefV(merged.a), InputSet_kwargs(merged.h, self))
            IN [h |-> n.h, v |-> RefV(n.a)]

-----------------------------------------------------------------------------
(* The objects a behaviour starts with *)

NoDisk == [dir |-> FALSE, files |-> << >>]
NoArgs == [make_dir |-> FALSE, overwrite |-> FALSE, zip_inputs |-> FALSE]

\* c = cl(<a dict literal>, **kwargs), after one InputFile f was made
MakeC(cl, shape) ==
    LET f == IF shape = 1 THEN [h |-> <<>>, a |-> 0] ELSE Alloc(<<>>, FileCell("ImplFile", "t1"))
        its == CASE shape = 1 -> <<<<"a", StrV("s1")>>, <<"b", StrV("s1")>>>>
                 [] shape = 2 -> <<<<"a", RefV(f.a)>>>>
                 [] OTHER -> <<<<"b", RefV(f.a)>>, <<"a", StrV("s1")>>>>
        kw == CASE shape = 1 -> <<<<"foo", StrV("p1")>>>>
                [] shape = 2 -> <<<<"foo", RefV(f.a)>>>>
                [] OTHER -> <<>>
        d == Alloc(f.h, DictCell(its))
    IN InputSet_init(d.h, cl, RefV(d.a), kw)

\* the right-hand operand b: a collection, a dict, or something else
MakeB(h, shape) ==
    CASE shape \in SetClasses ->
           LET d == Alloc(h, DictCell(<<<<"b", StrV("s3")>>, <<"a", StrV("s3")>>>>))
           IN InputSet_init(d.h, shape, RefV(d.a), <<<<"foo", StrV("q1")>>>>)
      [] shape = "dict" -> Alloc(h, DictCell(<<<<"b", StrV("s3")>>>>))
      [] shape = "emptydict" -> Alloc(h, DictCell(<<>>))
      [] OTHER -> Alloc(h, FileCell("ImplFile", "t3"))

BShapes == SetClasses \cup {"dict", "emptydict", "file"}

Init ==
    /\ \E cl \in SetClasses, sc \in 1..3 :
          LET c == MakeC(cl, sc)
          IN /\ heap = c.h
             /\ env = [c |-> c.a, d |-> 0, s |-> 0, b |-> 0]
    /\ res = NoneV
    /\ orArgs = [left |-> 0, right |-> 0, shape |-> ""]
    /\ nops = 0
    /\ last = NoCall
    /\ disk = NoDisk
    /\ pc = "idle"
    /\ idx = 0
    /\ args = NoArgs
    /\ pre = NoDisk
    /\ extDeleted = {}

-----------------------------------------------------------------------------
(* The operations on collections *)

Roots == {"c", "d", "s"}
fsvars == <<disk, pc, idx, args, pre, extDeleted>>

\* x[key] = val
SetItem(x, key, val) ==
    /\ env[x] # 0 /\ nops < MaxOps
    /\ heap' = InputSet_setitem(heap, env[x], key, val)
    /\ nops' = nops + 1
    /\ UNCHANGED <<env, res, orArgs, last, fsvars>>

\* del x[key]
DelItem(x, key) ==
    /\ env[x] # 0 /\ nops < MaxOps
    /\ DictHas(InputSet_inputs(heap, env[x]), key)
    /\ heap' = InputSet_delitem(heap, env[x], key)
    /\ nops' = nops + 1
    /\ UNCHANGED <<env, res, orArgs, last, fsvars>>

\* x.name = val
SetAttr(x, name, val) ==
    /\ env[x] # 0 /\ nops < MaxOps
    /\ heap' = SetAttrObj(heap, env[x], name, val)
    /\ nops' = nops + 1
    /\ UNCHANGED <<env, res, orArgs, last, fsvars>>

\* del x.name
DelAttr(x, name) ==
    /\ env[x] # 0 /\ nops < MaxOps
    /\ DictHas(heap[env[x]].items, name)
    /\ heap' = DelAttrObj(heap, env[x], name)
    /\ nops' = nops + 1
    /\ UNCHANGED <<env, res, orArgs, last, fsvars>>

\* a mutation of the InputFile x[key]
MutateFile(x, key) ==
    /\ env[x] # 0 /\ nops < MaxOps
    /\ DictHas(InputSet_inputs(heap, env[x]), key)
    /\ LET v == DictGet(InputSet_inputs(heap, env[x]), key)
       IN /\ v.k = "ref" /\ heap[v.a].t = "file" /\ heap[v.a].text # "t2"
          /\ heap' = [heap EXCEPT ![v.a].text = "t2"]
    /\ nops' = nops + 1
    /\ UNCHANGED <<env, res, orArgs, last, fsvars>>

\* s = copy.copy(c)
Copy ==
    /\ env.s = 0
    /\ LET n == InputSet_copy(heap, env.c)
       IN heap' = n.h /\ env' = [env EXCEPT !.s = n.a]
    /\ UNCHANGED <<res, orArgs, nops, last, fsvars>>

\* d = copy.deepcopy(c)
DeepCopyC ==
    /\ env.d = 0
    /\ LET r == DeepCopy(heap, <<>>, RefV(env.c))
       IN heap' = r.h /\ env' = [env EXCEPT !.d = r.v.a]
    /\ UNCHANGED <<res, orArgs, nops, last, fsvars>>

\* b = <an operand of shape sb>; res = x | b
Or(x, sb) ==
    /\ env[x] # 0 /\ env.b = 0 /\ nops < MaxOps
    /\ LET b == MakeB(heap, sb)
           r == InputSet_or(b.h, env[x], RefV(b.a))
       IN /\ heap' = r.h /\ res' = r.v
          /\ env' = [env EXCEPT !.b = b.a]
          /\ orArgs' = [left |-> env[x], right |-> b.a, shape |-> sb]
    /\ nops' = nops + 1 /\ UNCHANGED <<last, fsvars>>

\* res = x | y, both collections the program holds
OrRoots(x, y) ==
    /\ env[x] # 0 /\ env[y] # 0 /\ env.b = 0 /\ nops < MaxOps
    /\ LET r == InputSet_or(heap, env[x], RefV(env[y]))
       IN /\ heap' = r.h /\ res' = r.v
          /\ env' = [env EXCEPT !.b = env[y]]
          /\ orArgs' = [left |-> env[x], right |-> env[y], shape |-> ""]
    /\ nops' = nops + 1 /\ UNCHANGED <<last, fsvars>>

Next ==
    \/ \E x \in Roots, key \in Keys : SetItem(x, key, StrV("s2"))
    \/ \E key \in Keys : SetItem("c", key, RefV(env.c))
    \/ \E x \in Roots, key \in Keys : DelItem(x, key)
    \/ \E x \in Roots : SetAttr(x, "foo", StrV("p2"))
    \/ \E x \in Roots : DelAttr(x, "foo")
    \/ \E x \in Roots, key \in Keys : MutateFile(x, key)
    \/ Copy
    \/ DeepCopyC
    \/ \E x \in Roots, sb \in BShapes : Or(x, sb)
    \/ \E x \in Roots, y \in Roots : OrRoots(x, y)

Spec == Init /\ [][Next]_vars

-----------------------------------------------------------------------------
(* InputFile and the abstract operations *)

\* ImplFile is a subclass that implements get_str and from_str; BareFile,
\* SubSet and BareGenerator are subclasses that override nothing.
Overrides(cl, meth) == cl = "ImplFile" /\ meth \in {"get_str", "from_str"}

Absent == [ex |-> FALSE, text |-> "", members |-> <<>>]
Plain(tx) == [ex |-> TRUE, text |-> tx, members |-> <<>>]
Archive(ms) == [ex |-> TRUE, text |-> "PK", members |-> ms]

\* InputFile.get_str: the base method's body is its docstring alone
InputFile_get_str(h, self) ==
    IF Overrides(h[self].cls, "get_str")
    THEN Returned("get_str", StrV(h[self].text))
    ELSE Returned("get_str", NoneV)

\* InputFile.__str__: str(x) requires __str__ to return a str
InputFile_str(h, self) ==
    LET g == InputFile_get_str(h, self)
    IN IF g.val.k = "str" THEN Returned("__str__", g.val)
       ELSE Raised("__str__", "TypeError", h[self].cls)

\* InputFile.write_file(filename): [disk, out]; zopen(mode="wt") creates or
\* truncates the file before get_str is called, and write() takes a str only
InputFile_write_file(h, self, dk, name) ==
    IF ~dk.dir THEN [disk |-> dk, out |-> Raised("write_file", "FileNotFoundError", name)]
    ELSE LET g == InputFile_get_str(h, self)
         IN IF g.val.k = "str"
            THEN [disk |-> [dk EXCEPT !.files[name] = Plain(g.val.s)],
                  out |-> Returned("write_file", NoneV)]
            ELSE [disk |-> [dk EXCEPT !.files[name] = Plain("")],
                  out |-> Raised("write_file", "TypeError", h[self].cls)]

\* InputFile.from_str(cls, contents): [h, out]
InputFile_from_str(h, cl, contents) ==
    IF Overrides(cl, "from_str")
    THEN LET n == Alloc(h, FileCell(cl, contents))
         IN [h |-> n.h, out |-> Returned("from_str", RefV(n.a))]
    ELSE [h |-> h, out |-> Raised("from_str", "NotImplementedError", cl)]

\* InputFile.from_file(cls, path): [h, out]
InputFile_from_file(h, cl, dk, name) ==
    IF ~dk.dir \/ ~dk.files[name].ex
    THEN [h |-> h, out |-> Raised("from_file", "FileNotFoundError", name)]
    ELSE LET r == InputFile_from_str(h, cl, dk.files[name].text)
         IN [h |-> r.h, out |-> [r.out EXCEPT !.op = "from_file"]]

InputSet_from_directory(cl) == Raised("from_directory", "NotImplementedError", cl)
InputSet_validate(h, self) == Raised("validate", "NotImplementedError", h[self].cls)
InputGenerator_get_input_set(cl) == Raised("get_input_set", "NotImplementedError", cl)

-----------------------------------------------------------------------------
(* InputSet.write_input *)

Kinds == {"str", "int", "impl", "bare"}
ZipName(cl) == cl \o ".zip"
DiskNames == Names \cup {"other"} \cup {ZipName(cl) : cl \in SetClasses}
OldText(name) == "old_" \o name
NewText(name) == "new_" \o name
ArcName(name) == Dir \o "/" \o name        \* zip_file.write(path / fname): arcname is the path

\* str(contents) of a value that is no InputFile
Str(v) == v.s

\* what write_input writes for an entry when it can: get_str() of an InputFile,
\* str() of anything else
ContentText(h, v) ==
    IF IsInstance(h, v, "InputFile") THEN InputFile_get_str(h, v.a).val.s ELSE Str(v)

InputSet_write_entry_unchecked(h, self, dk, a, i) ==
    LET fname == InputSet_inputs(h, self)[i][1]
        contents == InputSet_inputs(h, self)[i][2]
        d1 == IF ~dk.dir /\ a.make_dir THEN [dk EXCEPT !.dir = TRUE] ELSE dk
    IN IF ~d1.dir
       THEN [disk |-> d1, out |-> Raised("write_input", "FileNotFoundError", fname)]
       ELSE LET d2 == IF d1.files[fname].ex THEN d1
                      ELSE [d1 EXCEPT !.files[fname] = Plain("")]
            IN IF IsInstance(h, contents, "InputFile")
               THEN LET w == InputFile_write_file(h, contents.a, d2, fname)
                    IN [disk |-> w.disk, out |-> [w.out EXCEPT !.op = "write_input"]]
               ELSE [disk |-> [d2 EXCEPT !.files[fname] = Plain(Str(contents))],
                     out |-> Returned("write_input", NoneV)]

InputSet_write_entry_latecheck(h, self, dk, a, i) ==
    LET fname == InputSet_inputs(h, self)[i][1]
        contents == InputSet_inputs(h, self)[i][2]
        d1 == IF ~dk.dir /\ a.make_dir THEN [dk EXCEPT !.dir = TRUE] ELSE dk
    IN IF ~d1.dir
       THEN [disk |-> d1, out |-> Raised("write_input", "FileNotFoundError", fname)]
       ELSE IF d1.files[fname].ex /\ ~a.overwrite
       THEN [disk |-> [d1 EXCEPT !.files[fname] = Plain("")],
             out |-> Raised("write_input", "FileExistsError", fname)]
       ELSE IF IsInstance(h, contents, "InputFile")
       THEN LET w == InputFile_write_file(h, contents.a, d1, fname)
            IN [disk |-> w.disk, out |-> [w.out EXCEPT !.op = "write_input"]]
       ELSE [disk |-> [d1 EXCEPT !.files[fname] = Plain(Str(contents))],
             out |-> Returned("write_input", NoneV)]

\* one round of the loop over self.inputs.items(), lines 207-222: [disk, out]
InputSet_write_entry(h, self, dk, a, i) ==
    LET fname == InputSet_inputs(h, self)[i][1]
        contents == InputSet_inputs(h, self)[i][2]
        d1 == IF ~dk.dir /\ a.make_dir THEN [dk EXCEPT !.dir = TRUE] ELSE dk
    IN IF d1.files[fname].ex /\ ~a.overwrite
       THEN [disk |-> d1, out |-> Raised("write_input", "FileExistsError", fname)]
       ELSE IF ~d1.dir
       THEN [disk |-> d1, out |-> Raised("write_input", "FileNotFoundError", fname)]
       ELSE LET d2 == IF d1.files[fname].ex THEN d1
                      ELSE [d1 EXCEPT !.files[fname] = Plain("")]
            IN IF IsInstance(h, contents, "InputFile")
               THEN LET w == InputFile_write_file(h, contents.a, d2, fname)
                    IN [disk |-> w.disk, out |-> [w.out EXCEPT !.op = "write_input"]]
               ELSE [disk |-> [d2 EXCEPT !.files[fname] = Plain(Str(contents))],
                     out |-> Returned("write_input", NoneV)]

\* ZipFile(path / f"{type(self).__name__}.zip", mode="w"): [disk, out]
InputSet_zip_open(h, self, dk) ==
    IF ~dk.dir
    THEN [disk |-> dk, out |-> Raised("write_input", "FileNotFoundError", ZipName(h[self].cls))]
    ELSE [disk |-> [dk EXCEPT !.files[ZipName(h[self].cls)] = Archive(<<>>)],
          out |-> Returned("write_input", NoneV)]

InputSet_zip_write_uncaught(h, self, dk, i) ==
    LET fname == InputSet_inputs(h, self)[i][1]
        zn == ZipName(h[self].cls)
    IN IF dk.files[fname].ex
       THEN [disk |-> [dk EXCEPT !.files[zn].members =
                          Append(@, [name |-> ArcName(fname), text |-> dk.files[fname].text])],
             found |-> TRUE, out |-> Returned("write_input", NoneV)]
       ELSE [disk |-> dk, found |-> FALSE,
             out |-> Raised("write_input", "FileNotFoundError", fname)]

\* zip_file.write(file_path) under try / except FileNotFoundError: pass, lines
\* 229-233: [disk, found, out], out the exception that leaves the try if any
InputSet_zip_write(h, self, dk, i) ==
    LET fname == InputSet_inputs(h, self)[i][1]
        zn == ZipName(h[self].cls)
    IN IF dk.files[fname].ex
       THEN [disk |-> [dk EXCEPT !.files[zn].members =
                          Append(@, [name |-> ArcName(fname), text |-> dk.files[fname].text])],
             found |-> TRUE, out |-> Returned("write_input", NoneV)]
       ELSE [disk |-> dk, found |-> FALSE, out |-> Returned("write_input", NoneV)]

InputSet_zip_remove_keep(h, self, dk, i) == dk

\* os.remove(file_path) under except FileNotFoundError: pass, lines 231-233
InputSet_zip_remove(h, self, dk, i) ==
    [dk EXCEPT !.files[InputSet_inputs(h, self)[i][1]] = Absent]

AfterWrite(i, n, zip) == IF i <= n THEN "write" ELSE IF zip THEN "zipopen" ELSE "done"
AfterZip(i, n) == IF i <= n THEN "zip" ELSE "done"

\* the entries a collection is built from: <<name, kind>>, names distinct
EntrySeqs ==
    {q \in UNION {[1..n -> Names \X Kinds] : n \in 0..NumNames} :
        \A i, j \in 1..Len(q) : q[i][1] = q[j][1] => i = j}

RECURSIVE BuildItems(_, _, _)
BuildItems(h, entries, acc) ==
    IF entries = <<>> THEN [h |-> h, items |-> acc]
    ELSE LET name == entries[1][1]
             kind == entries[1][2]
         IN CASE kind = "str" ->
                   BuildItems(h, Tail(entries), Append(acc, <<name, StrV(NewText(name))>>))
              [] kind = "int" ->
                   BuildItems(h, Tail(entries), Append(acc, <<name, IntV("7")>>))
              [] kind = "impl" ->
                   LET f == Alloc(h, FileCell("ImplFile", NewText(name)))
                   IN BuildItems(f.h, Tail(entries), Append(acc, <<name, RefV(f.a)>>))
              [] OTHER ->
                   LET f == Alloc(h, FileCell("BareFile", ""))
                   IN BuildItems(f.h, Tail(entries), Append(acc, <<name, RefV(f.a)>>))

\* c = cl({name: contents, ...})
MakeSet(cl, entries) ==
    LET b == BuildItems(<<>>, entries, <<>>)
        d == Alloc(b.h, DictCell(b.items))
    IN InputSet_init(d.h, cl, RefV(d.a), <<>>)

\* the directory before the call: missing, or holding some of the names
\* (and, with extra, an unrelated file and an archive of an earlier call)
MakeDisk(exists, present, extra) ==
    [dir |-> exists,
     files |-> [n \in DiskNames |->
                  IF ~exists THEN Absent
                  ELSE IF n \in Names THEN (IF n \in present THEN Plain(OldText(n)) ELSE Absent)
                  ELSE IF ~extra THEN Absent
                  ELSE IF n = "other" THEN Plain(OldText(n))
                  ELSE Archive(<<[name |-> ArcName("other"), text |-> OldText("other")]>>)]]

InitWrite ==
    /\ \E cl \in SetClasses, entries \in EntrySeqs :
          LET c == MakeSet(cl, entries)
          IN /\ heap = c.h
             /\ env = [c |-> c.a, d |-> 0, s |-> 0, b |-> 0]
    /\ \/ disk = MakeDisk(FALSE, {}, FALSE)
       \/ \E present \in SUBSET Names, extra \in BOOLEAN : disk = MakeDisk(TRUE, present, extra)
    /\ res = NoneV
    /\ orArgs = [left |-> 0, right |-> 0, shape |-> ""]
    /\ nops = 0
    /\ last = NoCall
    /\ pc = "idle"
    /\ idx = 0
    /\ args = NoArgs
    /\ pre = disk
    /\ extDeleted = {}

objvars == <<heap, env, res, orArgs, nops>>
NumEntries == InputSet_len(heap, env.c)

\* c.write_input(Dir, make_dir, overwrite, zip_inputs) is called
Call(md, ow, zp) ==
    /\ pc = "idle"
    /\ args' = [make_dir |-> md, overwrite |-> ow, zip_inputs |-> zp]
    /\ pre' = disk
    /\ idx' = 1
    /\ pc' = AfterWrite(1, NumEntries, zp)
    /\ last' = IF AfterWrite(1, NumEntries, zp) = "done"
               THEN Returned("write_input", NoneV) ELSE last
    /\ UNCHANGED <<objvars, disk, extDeleted>>

\* one entry is written, or the call raises
WriteEntry ==
    /\ pc = "write"
    /\ LET w == InputSet_write_entry(heap, env.c, disk, args, idx)
       IN /\ disk' = w.disk
          /\ IF w.out.exc # ""
             THEN /\ pc' = "done" /\ last' = w.out /\ idx' = idx
             ELSE /\ idx' = idx + 1
                  /\ pc' = AfterWrite(idx + 1, NumEntries, args.zip_inputs)
                  /\ last' = IF AfterWrite(idx + 1, NumEntries, args.zip_inputs) = "done"
                             THEN w.out ELSE last
    /\ UNCHANGED <<objvars, args, pre, extDeleted>>

\* the archive is opened for writing
ZipOpen ==
    /\ pc = "zipopen"
    /\ LET z == InputSet_zip_open(heap, env.c, disk)
       IN /\ disk' = z.disk
          /\ IF z.out.exc # ""
             THEN /\ pc' = "done" /\ last' = z.out /\ idx' = idx
             ELSE /\ idx' = 1
                  /\ pc' = AfterZip(1, NumEntries)
                  /\ last' = IF AfterZip(1, NumEntries) = "done" THEN z.out ELSE last
    /\ UNCHANGED <<objvars, args, pre, extDeleted>>

\* a file is added to the archive, or is missing and skipped
ZipWrite ==
    /\ pc = "zip"
    /\ LET z == InputSet_zip_write(heap, env.c, disk, idx)
       IN /\ disk' = z.disk
          /\ IF z.out.exc # ""
             THEN /\ pc' = "done" /\ last' = z.out /\ idx' = idx
             ELSE IF z.found
             THEN /\ pc' = "zipremove" /\ idx' = idx /\ last' = last
             ELSE /\ idx' = idx + 1
                  /\ pc' = AfterZip(idx + 1, NumEntries)
                  /\ last' = IF AfterZip(idx + 1, NumEntries) = "done"
                             THEN Returned("write_input", NoneV) ELSE last
    /\ UNCHANGED <<objvars, args, pre, extDeleted>>

\* the archived file is removed; a file gone in between is passed over
ZipRemove ==
    /\ pc = "zipremove"
    /\ disk' = InputSet_zip_remove(heap, env.c, disk, idx)
    /\ idx' = idx + 1
    /\ pc' = AfterZip(idx + 1, NumEntries)
    /\ last' = IF AfterZip(idx + 1, NumEntries) = "done"
               THEN Returned("write_input", NoneV) ELSE last
    /\ UNCHANGED <<objvars, args, pre, extDeleted>>

\* the names of the entries the call has written so far
WrittenNames ==
    LET ks == InputSet_iter(heap, env.c)
    IN IF pc = "write" THEN {ks[i] : i \in 1..(idx - 1)}
       ELSE IF pc \in {"zipopen", "zip", "zipremove"} THEN Range(ks)
       ELSE {}

\* another process deletes a file the call has written
ExtDelete(name) ==
    /\ name \in WrittenNames
    /\ disk.files[name].ex
    /\ disk' = [disk EXCEPT !.files[name] = Absent]
    /\ extDeleted' = extDeleted \cup {name}
    /\ UNCHANGED <<objvars, last, pc, idx, args, pre>>

NextWrite ==
    \/ \E md, ow, zp \in BOOLEAN : Call(md, ow, zp)
    \/ WriteEntry
    \/ ZipOpen
    \/ ZipWrite
    \/ ZipRemove
    \/ \E name \in Names : ExtDelete(name)

SpecWrite == InitWrite /\ [][NextWrite]_vars

-----------------------------------------------------------------------------
(* Claims about write_input (specification SpecWrite) *)

Entries == InputSet_inputs(heap, env.c)
EntryNames == DictKeySet(Entries)
Finished == pc = "done"
Undisturbed == extDeleted = {}
ZipFileName == ZipName(heap[env.c].cls)

\* the entry can be written: its content renders to a str
Writable(i) ==
    IsInstance(heap, Entries[i][2], "InputFile")
        => InputFile_get_str(heap, Entries[i][2].a).val.k = "str"
\* the file of entry i was in the directory when the call began
Preexisting(i) == pre.files[Entries[i][1]].ex
Holds(dk, i) == dk.files[Entries[i][1]] = Plain(ContentText(heap, Entries[i][2]))

\* C1: write_input(directory, make_dir=True, overwrite=True, zip_inputs=False)
\* that returns normally leaves the directory existing and every entry's file
\* holding the entry's content.
C1_WriteLeavesDirectoryAndFiles ==
    (Finished /\ Undisturbed /\ last.exc = ""
        /\ args.make_dir /\ args.overwrite /\ ~args.zip_inputs)
    => /\ disk.dir
       /\ \A i \in 1..Len(Entries) : Holds(disk, i)

\* The same for the collections that have an entry: these are the calls in
\* which the loop reaches path.mkdir.
WriteLeavesFilesOfNonEmpty ==
    (Finished /\ Undisturbed /\ last.exc = "" /\ Len(Entries) > 0
        /\ args.make_dir /\ args.overwrite /\ ~args.zip_inputs)
    => /\ disk.dir
       /\ \A i \in 1..Len(Entries) : Holds(disk, i)

\* C2 as claimed: with overwrite=False, for every key whose file was already
\* there, the call fails with FileExistsError carrying that filename and the
\* file is as it was.
C2_EveryExistingNameIsReported ==
    (Finished /\ Undisturbed /\ ~args.overwrite)
    => \A i \in 1..Len(Entries) :
          Preexisting(i)
          => /\ last.exc = "FileExistsError" /\ last.arg = Entries[i][1]
             /\ disk.files[Entries[i][1]] = pre.files[Entries[i][1]]

\* C2 amended: with overwrite=False and some key's file already there, the call
\* fails and every such file is as it was; the FileExistsError carries the
\* name of the first entry, in iteration order, whose file was there, and it
\* is the error raised whenever every entry before that one could be written.
FirstExisting == CHOOSE i \in 1..Len(Entries) :
                    Preexisting(i) /\ \A j \in 1..(i - 1) : ~Preexisting(j)
C2_FirstExistingNameIsReported ==
    (Finished /\ Undisturbed /\ ~args.overwrite /\ \E i \in 1..Len(Entries) : Preexisting(i))
    => /\ last.exc # ""
       /\ \A i \in 1..Len(Entries) :
             Preexisting(i) => disk.files[Entries[i][1]] = pre.files[Entries[i][1]]
       /\ last.exc = "FileExistsError" => last.arg = Entries[FirstExisting][1]
       /\ (\A j \in 1..(FirstExisting - 1) : Writable(j))
             => last = Raised("write_input", "FileExistsError", Entries[FirstExisting][1])

\* C2 witness: both entries' files were there; the call failed naming the
\* first entry and not the second.
C2_Witness ==
    /\ Finished /\ Undisturbed /\ ~args.overwrite
    /\ Len(Entries) >= 2 /\ Preexisting(1) /\ Preexisting(2)
    /\ last = Raised("write_input", "FileExistsError", Entries[1][1])
    /\ disk.files[Entries[2][1]] = pre.files[Entries[2][1]]

\* C3 as claimed: when the call fails with FileExistsError, no entry of the
\* collection has been created or modified in the directory.
C3_NothingWrittenOnFailure ==
    (Finished /\ Undisturbed /\ last.exc = "FileExistsError")
    => \A i \in 1..Len(Entries) : disk.files[Entries[i][1]] = pre.files[Entries[i][1]]

\* C3 amended: when the call fails with FileExistsError at an entry, that
\* entry and every later one are as they were in the directory, and every
\* earlier entry (none of which was there before) has been written in full.
C3_WrittenUpToTheExistingFile ==
    (Finished /\ Undisturbed /\ last.exc = "FileExistsError")
    => /\ ~args.overwrite
       /\ idx \in 1..Len(Entries) /\ last.arg = Entries[idx][1] /\ Preexisting(idx)
       /\ \A i \in idx..Len(Entries) : disk.files[Entries[i][1]] = pre.files[Entries[i][1]]
       /\ \A i \in 1..(idx - 1) : ~Preexisting(i) /\ Holds(disk, i)

\* C3 witness: the second entry's file was there; the first was created and
\* written before the call failed.
C3_Witness ==
    /\ Finished /\ Undisturbed /\ last.exc = "FileExistsError"
    /\ idx = 2 /\ ~Preexisting(1) /\ Holds(disk, 1)

\* C4 as claimed: after write_input(zip_inputs=True) returns normally the
\* directory holds exactly one file, <ConcreteTypeName>.zip, whose members are
\* named as the collection's keys and hold what was written for them.
C4_OnlyTheArchiveKeyNamedMembers ==
    (Finished /\ Undisturbed /\ last.exc = "" /\ args.zip_inputs)
    => /\ {n \in DiskNames : disk.files[n].ex} = {ZipFileName}
       /\ disk.files[ZipFileName].members =
             [i \in 1..Len(Entries) |->
                 [name |-> Entries[i][1], text |-> ContentText(heap, Entries[i][2])]]

\* C4 amended: after write_input(zip_inputs=True) returns normally the
\* directory holds <ConcreteTypeName>.zip, written anew; none of the
\* collection's filenames is a loose file; every other file that was there is
\* still there; the archive's members are, in iteration order, one per key,
\* named by the file's path (directory/filename) and holding what was written.
C4_ArchiveReplacesWrittenFiles ==
    (Finished /\ Undisturbed /\ last.exc = "" /\ args.zip_inputs)
    => /\ disk.dir /\ disk.files[ZipFileName].ex
       /\ \A n \in EntryNames : ~disk.files[n].ex
       /\ \A n \in DiskNames \ (EntryNames \cup {ZipFileName}) : disk.files[n] = pre.files[n]
       /\ disk.files[ZipFileName].members =
             [i \in 1..Len(Entries) |->
                 [name |-> ArcName(Entries[i][1]), text |-> ContentText(heap, Entries[i][2])]]

\* C4 witness: a collection of two entries was archived in a directory that
\* held an unrelated file and an older archive of the same name.
C4_Witness ==
    /\ Finished /\ Undisturbed /\ last.exc = "" /\ args.zip_inputs
    /\ Len(Entries) = 2
    /\ pre.dir /\ pre.files["other"].ex /\ pre.files[ZipFileName].ex
    /\ disk.files["other"].ex
    /\ Len(disk.files[ZipFileName].members) = 2

\* C5: once the files are written, whatever files the external actor deletes
\* and whenever, the archive phase raises nothing: the call returns normally,
\* none of the collection's files is left on disk, and each of them is in the
\* archive (under its path, with the content written) or was deleted by the
\* external actor; the archive holds nothing else.
ArchivePhase == {"zip", "zipremove"}
Archived(dk, i) ==
    \E m \in 1..Len(dk.files[ZipFileName].members) :
        dk.files[ZipFileName].members[m] =
            [name |-> ArcName(Entries[i][1]), text |-> ContentText(heap, Entries[i][2])]
ArchiveStep ==
    /\ (pc = "zipopen" /\ Len(Entries) > 0) => (pc' # "done" /\ last'.exc = "")
    /\ pc \in ArchivePhase =>
          /\ pc' \in ArchivePhase \cup {"done"}
          /\ last'.exc = ""
          /\ pc' = "done" =>
                /\ last' = Returned("write_input", NoneV)
                /\ \A i \in 1..Len(Entries) :
                      /\ ~disk'.files[Entries[i][1]].ex
                      /\ Archived(disk', i) \/ Entries[i][1] \in extDeleted'
                /\ \A m \in 1..Len(disk'.files[ZipFileName].members) :
                      \E i \in 1..Len(Entries) :
                          disk'.files[ZipFileName].members[m] =
                              [name |-> ArcName(Entries[i][1]),
                               text |-> ContentText(heap, Entries[i][2])]
    /\ (pc = "zip" /\ pc' # "zip" /\ disk.files[Entries[idx][1]].ex) => Archived(disk', idx)
C5_ArchivingToleratesDeletions == [][ArchiveStep]_vars

\* C5 witness: of two written files the external actor deleted one before it
\* was archived; the call returned normally with the other one archived.
C5_Witness ==
    /\ Finished /\ args.zip_inputs /\ last.exc = ""
    /\ Len(Entries) = 2
    /\ \E i, j \in 1..2 :
          /\ i # j
          /\ Entries[i][1] \in extDeleted /\ ~Archived(disk, i)
          /\ Entries[j][1] \notin extDeleted /\ Archived(disk, j)

-----------------------------------------------------------------------------
(* The abstract operations, called on types that do or do not override them *)

\* one InputFile of each class, one collection of each class, and a directory
\* holding the file "a"
InitCalls ==
    /\ LET f1 == Alloc(<<>>, FileCell("InputFile", ""))
           f2 == Alloc(f1.h, FileCell("BareFile", ""))
           f3 == Alloc(f2.h, FileCell("ImplFile", "t1"))
           c1 == InputSet_init(f3.h, "InputSet", NoneV, <<>>)
           c2 == InputSet_init(c1.h, "SubSet", NoneV, <<>>)
       IN /\ heap = c2.h
          /\ env = [c |-> c1.a, d |-> c2.a, s |-> 0, b |-> 0]
    /\ disk = MakeDisk(TRUE, {"a"}, FALSE)
    /\ res = NoneV
    /\ orArgs = [left |-> 0, right |-> 0, shape |-> ""]
    /\ nops = 0
    /\ last = NoCall
    /\ pc = "idle"
    /\ idx = 0
    /\ args = NoArgs
    /\ pre = disk
    /\ extDeleted = {}

FileObjects == {a \in 1..Len(heap) : heap[a].t = "file"}
SetObjects == {a \in 1..Len(heap) : heap[a].t = "set"}
callframe == <<env, res, orArgs, pc, idx, args, pre, extDeleted>>

CallGetStr(f) ==
    /\ nops < MaxOps /\ nops' = nops + 1
    /\ last' = [InputFile_get_str(heap, f) EXCEPT !.on = heap[f].cls]
    /\ UNCHANGED <<heap, disk, callframe>>

CallStr(f) ==
    /\ nops < MaxOps /\ nops' = nops + 1
    /\ last' = [InputFile_str(heap, f) EXCEPT !.on = heap[f].cls]
    /\ UNCHANGED <<heap, disk, callframe>>

CallWriteFile(f, name) ==
    /\ nops < MaxOps /\ nops' = nops + 1
    /\ LET w == InputFile_write_file(heap, f, disk, name)
       IN disk' = w.disk /\ last' = [w.out EXCEPT !.on = heap[f].cls]
    /\ UNCHANGED <<heap, callframe>>

CallFromStr(cl, contents) ==
    /\ nops < MaxOps /\ nops' = nops + 1
    /\ LET r == InputFile_from_str(heap, cl, contents)
       IN heap' = r.h /\ last' = [r.out EXCEPT !.on = cl]
    /\ UNCHANGED <<disk, callframe>>

CallFromFile(cl, name) ==
    /\ nops < MaxOps /\ nops' = nops + 1
    /\ LET r == InputFile_from_file(heap, cl, disk, name)
       IN heap' = r.h /\ last' = [r.out EXCEPT !.on = cl]
    /\ UNCHANGED <<disk, callframe>>

CallFromDirectory(cl) ==
    /\ nops < MaxOps /\ nops' = nops + 1
    /\ last' = [InputSet_from_directory(cl) EXCEPT !.on = cl]
    /\ UNCHANGED <<heap, disk, callframe>>

CallValidate(c) ==
    /\ nops < MaxOps /\ nops' = nops + 1
    /\ last' = [InputSet_validate(heap, c) EXCEPT !.on = heap[c].cls]
    /\ UNCHANGED <<heap, disk, callframe>>

CallGetInputSet(cl) ==
    /\ nops < MaxOps /\ nops' = nops + 1
    /\ last' = [InputGenerator_get_input_set(cl) EXCEPT !.on = cl]
    /\ UNCHANGED <<heap, disk, callframe>>

NextCalls ==
    \/ \E f \in FileObjects : CallGetStr(f)
    \/ \E f \in FileObjects : CallStr(f)
    \/ \E f \in FileObjects, name \in Names : CallWriteFile(f, name)
    \/ \E cl \in FileClasses : CallFromStr(cl, "t2")
    \/ \E cl \in FileClasses, name \in Names : CallFromFile(cl, name)
    \/ \E cl \in SetClasses : CallFromDirectory(cl)
    \/ \E c \in SetObjects : CallValidate(c)
    \/ \E cl \in GeneratorClasses : CallGetInputSet(cl)

SpecCalls == InitCalls /\ [][NextCalls]_vars

\* C9: an abstract operation called on a type that did not override it fails
\* with a NotImplementedError that names the type; this holds of get_str and
\* of str(x) and write_file that call it, of from_str and of from_file that
\* calls it (on a file that is there), of from_directory, validate and
\* get_input_set.
AbstractOf(o) ==
    CASE o \in {"get_str", "__str__", "write_file"} -> "get_str"
      [] o \in {"from_str", "from_file"} -> "from_str"
      [] OTHER -> o
C9_AbstractOperationsRaise ==
    (/\ last.op \in {"get_str", "__str__", "write_file", "from_str", "from_file",
                     "from_directory", "validate", "get_input_set"}
     /\ ~Overrides(last.on, AbstractOf(last.op))
     /\ ~(last.op = "from_file" /\ last.exc = "FileNotFoundError"))
    => /\ last.exc = "NotImplementedError"
       /\ last.arg = last.on

-----------------------------------------------------------------------------
(* What is observed through an object: the graph reachable from it, its     *)
(* objects numbered in the order a depth-first walk first meets them.       *)

RECURSIVE Visit(_, _, _)
RECURSIVE VisitItems(_, _, _)
Visit(h, v, order) ==
    IF v.k # "ref" \/ v.a \in Range(order) THEN order
    ELSE VisitItems(h, h[v.a].items, Append(order, v.a))
VisitItems(h, its, order) ==
    IF its = <<>> THEN order ELSE VisitItems(h, Tail(its), Visit(h, its[1][2], order))

Order(h, a) == Visit(h, RefV(a), <<>>)
ReachSet(h, a) == Range(Order(h, a))
Renamed(o, v) == IF v.k = "ref" THEN RefV(CHOOSE i \in 1..Len(o) : o[i] = v.a) ELSE v
Canon(h, a) ==
    LET o == Order(h, a)
    IN [i \in 1..Len(o) |->
          LET cell == h[o[i]]
          IN [t |-> cell.t, cls |-> cell.cls, text |-> cell.text,
              items |-> [j \in 1..Len(cell.items) |->
                            <<cell.items[j][1], Renamed(o, cell.items[j][2])>>]]]

NoDup(q) == \A i, j \in 1..Len(q) : q[i] = q[j] => i = j
Without(q, key) == SelectSeq(q, LAMBDA e : e # key)

-----------------------------------------------------------------------------
(* Claims about the collection operations (specification Spec) *)

\* C6: a | b, for b a collection of a's concrete type or a dict, returns a new
\* collection; a and b are left as they were; the result maps every key of a
\* and of b, to b's value where b has the key and to a's otherwise; its stored
\* named parameters and its attributes of those names are a's stored ones.
OrPost(hb, h2, a, b, r) ==
    LET ai == InputSet_inputs(hb, a)
        bi == IF hb[b].t = "dict" THEN hb[b].items ELSE InputSet_inputs(hb, b)
        ri == InputSet_inputs(h2, r.a)
        akw == InputSet_kwargs(hb, a)
    IN /\ r.k = "ref" /\ r.a > Len(hb) /\ h2[r.a].t = "set" /\ h2[r.a].cls = hb[a].cls
       /\ Canon(h2, a) = Canon(hb, a)
       /\ Canon(h2, b) = Canon(hb, b)
       /\ DictKeySet(ri) = DictKeySet(ai) \cup DictKeySet(bi)
       /\ NoDup(DictKeys(ri))
       /\ \A key \in DictKeySet(ri) :
             DictGet(ri, key) = IF DictHas(bi, key) THEN DictGet(bi, key) ELSE DictGet(ai, key)
       /\ InputSet_kwargs(h2, r.a) = akw
       /\ \A name \in DictKeySet(akw) :
             GetAttr(h2, r.a, name) = Returned("getattr", DictGet(akw, name))
OrStep ==
    (env.b = 0 /\ env'.b # 0) =>
        LET hb == IF orArgs'.shape = "" THEN heap ELSE MakeB(heap, orArgs'.shape).h
            a == orArgs'.left
            b == orArgs'.right
        IN (hb[b].t = "dict" \/ (hb[b].t = "set" /\ hb[b].cls = hb[a].cls))
              => OrPost(hb, heap', a, b, res')
C6_OrMergesRightOverLeft == [][OrStep]_vars

\* C6 witness: a merge with a dict or a same-type collection has returned a
\* collection in which b's value replaced a's on a shared key, a's own key
\* survived, and a had stored parameters.
C6_Witness ==
    /\ res.k = "ref" /\ env.b # 0
    /\ heap[env.b].t \in {"dict", "set"}
    /\ InputSet_kwargs(heap, res.a) # <<>>
    /\ \E k1, k2 \in Keys :
          /\ k1 # k2
          /\ DictHas(InputSet_inputs(heap, res.a), k1)
          /\ DictHas(InputSet_inputs(heap, res.a), k2)
          /\ DictGet(InputSet_inputs(heap, res.a), k1) = StrV("s3")
          /\ DictGet(InputSet_inputs(heap, res.a), k2) \in {StrV("s1"), StrV("s2")}

\* C7: d = deepcopy(c) is a duplicate of everything reachable from c, with the
\* same sharing and cycles, and shares no object with c; afterwards no single
\* operation changes both what is observed through c and what is observed
\* through d.  s = copy(c) holds the very objects c holds, so a mutated
\* InputFile is the same through both.
DeepCopyStep ==
    (env.d = 0 /\ env'.d # 0) =>
        /\ Canon(heap', env'.d) = Canon(heap, env.c)
        /\ Canon(heap', env.c) = Canon(heap, env.c)
        /\ ReachSet(heap', env'.d) \cap ReachSet(heap', env.c) = {}
IndependentStep ==
    (env.d # 0 /\ env'.d = env.d) =>
        \/ Canon(heap', env.c) = Canon(heap, env.c)
        \/ Canon(heap', env.d) = Canon(heap, env.d)
CopyStep ==
    (env.s = 0 /\ env'.s # 0) =>
        /\ env'.s # env.c
        /\ heap'[env'.s].items = heap[env.c].items
SharedFileStep ==
    (env.s # 0 /\ env'.s = env.s) =>
        \A key \in Keys :
            LET ci == InputSet_inputs(heap, env.c)
                si == InputSet_inputs(heap, env.s)
            IN (DictHas(ci, key) /\ DictHas(si, key) /\ DictGet(ci, key) = DictGet(si, key)
                /\ DictGet(ci, key).k = "ref"
                /\ DictHas(InputSet_inputs(heap', env.c), key)
                /\ DictHas(InputSet_inputs(heap', env.s), key)
                /\ DictGet(InputSet_inputs(heap', env.c), key) = DictGet(ci, key)
                /\ DictGet(InputSet_inputs(heap', env.s), key) = DictGet(si, key))
               => (heap'[DictGet(ci, key).a] # heap[DictGet(ci, key).a]
                     => /\ Canon(heap', env.c) # Canon(heap, env.c)
                        /\ Canon(heap', env.s) # Canon(heap, env.s))
C7_CopyAndDeepCopy == [][DeepCopyStep /\ IndependentStep /\ CopyStep /\ SharedFileStep]_vars

\* C7 witness: c holds one InputFile twice (as an item and as a parameter) and
\* holds itself; d is its deep copy, holding its own file twice and itself,
\* and s its shallow copy; the file was since mutated, which shows through c
\* and s and not through d.
C7_Witness ==
    /\ env.d # 0 /\ env.s # 0
    /\ DictHas(InputSet_inputs(heap, env.c), "a")
    /\ DictHas(InputSet_inputs(heap, env.s), "a")
    /\ DictHas(InputSet_inputs(heap, env.d), "a")
    /\ LET fc == DictGet(InputSet_inputs(heap, env.c), "a")
           fs == DictGet(InputSet_inputs(heap, env.s), "a")
           fd == DictGet(InputSet_inputs(heap, env.d), "a")
       IN /\ fc.k = "ref" /\ fs = fc /\ fd.k = "ref" /\ fd # fc
          /\ heap[fc.a].t = "file" /\ heap[fd.a].t = "file"
          /\ heap[fc.a].text = "t2" /\ heap[fd.a].text = "t1"
          /\ GetAttr(heap, env.d, "foo").val = fd
    /\ InputSet_getitem(heap, env.c, "b").val = RefV(env.c)
    /\ InputSet_getitem(heap, env.d, "b").val = RefV(env.d)

\* C8: in a collection keys are unique and len is their number, and a step
\* leaves the iteration order alone (an assignment to a key it has), appends
\* one new key at the end, or takes one key out of the order.
KeysStep(x) ==
    (env[x] # 0 /\ env'[x] = env[x]) =>
        LET ks == InputSet_iter(heap, env[x])
            ks2 == InputSet_iter(heap', env[x])
        IN /\ NoDup(ks2)
           /\ InputSet_len(heap', env[x]) = Cardinality(Range(ks2))
           /\ \/ ks2 = ks
              \/ \E key \in Keys \ Range(ks) : ks2 = Append(ks, key)
              \/ \E key \in Range(ks) : ks2 = Without(ks, key)
C8_KeysInInsertionOrder == [][\A x \in Roots : KeysStep(x)]_vars

\* C8 witness: c started as {a, b}; a was deleted and assigned again, so that
\* iteration now yields b before a.
C8_Witness ==
    /\ InputSet_iter(heap, env.c) = <<"b", "a">>
    /\ InputSet_getitem(heap, env.c, "b").val = StrV("s1")
    /\ InputSet_getitem(heap, env.c, "a").val = StrV("s2")

\* C10: looking up a stored named parameter as an attribute returns the value
\* stored for it (unless the attribute was since assigned another value), and
\* looking up a name that is neither an instance attribute nor a stored
\* parameter raises AttributeError.
C10_StoredParameterLookup ==
    \A x \in Roots : env[x] # 0 =>
        LET kw == InputSet_kwargs(heap, env[x])
            dct == heap[env[x]].items
        IN /\ \A name \in DictKeySet(kw) :
                 (DictHas(dct, name) /\ DictGet(dct, name) # DictGet(kw, name))
                 \/ GetAttr(heap, env[x], name) = Returned("getattr", DictGet(kw, name))
           /\ \A name \in AttrNames :
                 (~DictHas(dct, name) /\ ~DictHas(kw, name))
                    => GetAttr(heap, env[x], name).exc = "AttributeError"

====
